---- MODULE Spec2Model ----
(***************************************************************************)
(* A model of src/utils/color.js: the Color class with its hex             *)
(* normalisation, its constructor and its three distance functions.        *)
(*                                                                         *)
(* Representation of JavaScript values:                                    *)
(*   - a string is [str |-> the sequence of its characters];               *)
(*   - null is the record [null |-> TRUE];                                 *)
(*   - an object is the record of its properties;                          *)
(*   - an integer-valued number is an integer;                             *)
(*   - the result of Math.sqrt, and of the addition of two such results,   *)
(*     is an IEEE-754 binary64 value [e, m]: m * 2^(e - 52) with the       *)
(*     53-bit significand m held as <<hi, lo>> = hi * 2^28 + lo.           *)
(***************************************************************************)
EXTENDS Integers, Sequences, FiniteSets

VARIABLES
    hex,        \* the string handed to normalizeHex / new Color
    color1,     \* Color objects (or none)
    color2,
    color3,
    hexLab,     \* convert.hex.lab on the hex strings in play
    atan2deg,   \* degrees(Math.atan2(y, x)) on the points in play
    alg,        \* the algorithmType handed to Color.distance
    ret,        \* what the last call returned
    thrown,     \* what the last call threw (or none)
    pc          \* the call that was made

vars == <<hex, color1, color2, color3, hexLab, atan2deg, alg, ret, thrown, pc>>

null == [null |-> TRUE]

\* no object, no return value, no error
none == [none |-> TRUE]

\* the string of the characters cs
Str(cs) == [str |-> cs]

(***************************************************************************)
(* Bounds of the model.                                                    *)
(***************************************************************************)
\* longest input string handed to normalizeHex / new Color
MaxLen == 7

\* the characters input strings are made of: the '#', a lower-case, an
\* upper-case and a decimal hex digit, and a letter just outside a-f
Chars == {"#", "c", "B", "9", "g"}

Strings == {Str(cs) : cs \in UNION {[1..n -> Chars] : n \in 0..MaxLen}}

(***************************************************************************)
(* Hex normalisation and parsing.                                          *)
(***************************************************************************)
LowerDigits == <<"0","1","2","3","4","5","6","7","8","9","a","b","c","d","e","f">>
UpperDigits == <<"0","1","2","3","4","5","6","7","8","9","A","B","C","D","E","F">>

\* the character class [a-fA-F0-9]
HexClass == {LowerDigits[i] : i \in 1..16} \cup {UpperDigits[i] : i \in 1..16}

\* RegExp.prototype.test coerces its argument to a string: String(null) is "null"
toString(v) == IF v = null THEN <<"n", "u", "l", "l">> ELSE v.str

\* /^#([a-fA-F0-9]{3})$/.test(v)
HEX_SHORT(v) ==
    LET s == toString(v) IN
    /\ Len(s) = 4
    /\ s[1] = "#"
    /\ \A i \in 2..4 : s[i] \in HexClass

\* /^#([a-fA-F0-9]{6})$/.test(v)
HEX(v) ==
    LET s == toString(v) IN
    /\ Len(s) = 7
    /\ s[1] = "#"
    /\ \A i \in 2..7 : s[i] \in HexClass

\* String.prototype.slice(from, to) for 0 <= from <= to
slice(s, from, to) == Str(SubSeq(s.str, from + 1, IF to > Len(s.str) THEN Len(s.str) ELSE to))

\* s + t on strings
concat(s, t) == Str(s.str \o t.str)

\* normalizeHex with the digits of the short form repeated as a group
normalizeHexGrouped(h) ==
    IF HEX(h) THEN h
    ELSE IF HEX_SHORT(h) THEN
        LET r == slice(h, 1, 2)
            g == slice(h, 2, 3)
            b == slice(h, 3, 4)
        IN  concat(concat(concat(Str(<<"#">>), concat(r, g)), concat(b, r)), concat(g, b))
    ELSE null

normalizeHex(h) ==
    IF HEX(h) THEN h
    ELSE IF HEX_SHORT(h) THEN
        LET r == slice(h, 1, 2)
            g == slice(h, 2, 3)
            b == slice(h, 3, 4)
        IN  concat(concat(concat(Str(<<"#">>), concat(r, r)), concat(g, g)), concat(b, b))
    ELSE null

\* the value of one hex digit, as parseInt(_, 16) reads it
DigitValue(c) ==
    (CHOOSE i \in 1..16 : LowerDigits[i] = c \/ UpperDigits[i] = c) - 1

\* convert.hex.rgb on a normalised string: the integer of the six digits,
\* split into its three bytes
hexRgb(h) ==
    <<16 * DigitValue(h.str[2]) + DigitValue(h.str[3]),
      16 * DigitValue(h.str[4]) + DigitValue(h.str[5]),
      16 * DigitValue(h.str[6]) + DigitValue(h.str[7])>>

parseHex(h) ==
    LET normalizedHex == normalizeHex(h) IN
    IF normalizedHex = null THEN null
    ELSE LET t == hexRgb(normalizedHex) IN [r |-> t[1], g |-> t[2], b |-> t[3]]

Max3(x, y, z) == IF x >= y /\ x >= z THEN x ELSE IF y >= z THEN y ELSE z
Min3(x, y, z) == IF x <= y /\ x <= z THEN x ELSE IF y <= z THEN y ELSE z

\* Math.round(p / q) for p >= 0, q > 0
Round(p, q) == (2 * p + q) \div (2 * q)

\* convert.rgb.hsv: hue in degrees, saturation and value in percent, rounded
rgbHsv(t) ==
    LET r == t[1]
        g == t[2]
        b == t[3]
        mx == Max3(r, g, b)
        mn == Min3(r, g, b)
        delta == mx - mn
        \* 60 * h * delta
        hnum == IF mx = mn THEN 0
                ELSE IF r = mx THEN 60 * (g - b)
                ELSE IF g = mx THEN 120 * delta + 60 * (b - r)
                ELSE 240 * delta + 60 * (r - g)
        hpos == IF hnum < 0 THEN hnum + 360 * delta ELSE hnum
    IN  <<IF mx = mn THEN 0 ELSE Round(hpos, delta),
          IF mx = 0 THEN 0 ELSE Round(100 * delta, mx),
          Round(100 * mx, 255)>>

rgbToHsv(rgb) ==
    LET t == rgbHsv(<<rgb.r, rgb.g, rgb.b>>) IN [h |-> t[1], s |-> t[2], v |-> t[3]]

\* a TypeError: reading property `property` of `of`, or calling `of`
TypeError(property, of) == [name |-> "TypeError", property |-> property, value |-> of]

\* new Color(h): the object the constructor returns, or the error it throws
\* when rgbToHsv reads rgb.r of a null rgb
Constructor(h) ==
    LET original == h
        thisHex == normalizeHex(h)
        rgb == parseHex(thisHex)
    IN  IF rgb = null
        THEN [threw |-> TRUE, error |-> TypeError("r", null)]
        ELSE [threw |-> FALSE,
              object |-> [original |-> original, hex |-> thisHex,
                          rgb |-> rgb, hsv |-> rgbToHsv(rgb)]]

(***************************************************************************)
(* IEEE-754 binary64 arithmetic on the values the distances take: zero and *)
(* the numbers from 1 up.  A significand is a wide integer <<hi, lo>>,     *)
(* hi * 2^28 + lo, below 2^56.                                             *)
(***************************************************************************)
Limb == 2^28

WNorm(hi, lo) == <<hi + lo \div Limb, lo % Limb>>
WAdd(x, y) == WNorm(x[1] + y[1], x[2] + y[2])
WInc(x) == WNorm(x[1], x[2] + 1)
WSub(x, y) ==
    IF x[2] >= y[2] THEN <<x[1] - y[1], x[2] - y[2]>>
    ELSE <<x[1] - y[1] - 1, x[2] + Limb - y[2]>>
WLeq(x, y) == x[1] < y[1] \/ (x[1] = y[1] /\ x[2] <= y[2])
WShl1(x) == WNorm(2 * x[1], 2 * x[2])
WShl2(x) == WNorm(4 * x[1], 4 * x[2])
WHalf(x) == <<x[1] \div 2, (x[1] % 2) * (Limb \div 2) + x[2] \div 2>>
WOdd(x) == x[2] % 2 = 1

\* 2^52 and 2^53
W52 == <<2^24, 0>>
W53 == <<2^25, 0>>

FZero == [e |-> 0, m |-> <<0, 0>>]
FIsZero(x) == x.m = <<0, 0>>

\* x <= y
FLeq(x, y) ==
    IF FIsZero(x) THEN TRUE
    ELSE IF FIsZero(y) THEN FALSE
    ELSE x.e < y.e \/ (x.e = y.e /\ WLeq(x.m, y.m))

\* the significand m (below 2^54) with the bits shifted out below it (the
\* guard bit and whether any lower bit is set), rounded to nearest, ties to
\* even, and renormalised to 53 bits
FRound(e, m, guard, sticky) ==
    IF WLeq(W53, m)
    THEN LET h == WHalf(m)
             up == WOdd(m) /\ (guard = 1 \/ sticky \/ WOdd(h))
             r == IF up THEN WInc(h) ELSE h
         IN  IF r = W53 THEN [e |-> e + 2, m |-> W52] ELSE [e |-> e + 1, m |-> r]
    ELSE LET up == guard = 1 /\ (sticky \/ WOdd(m))
             r == IF up THEN WInc(m) ELSE m
         IN  IF r = W53 THEN [e |-> e + 1, m |-> W52] ELSE [e |-> e, m |-> r]

\* floor(n / 2^k) with the guard bit and the sticky flag of what was shifted out
RECURSIVE WShr(_, _, _, _)
WShr(m, k, guard, sticky) ==
    IF k = 0 THEN <<m, guard, sticky>>
    ELSE WShr(WHalf(m), k - 1, IF WOdd(m) THEN 1 ELSE 0, sticky \/ guard = 1)

\* x + y on binary64 values
fadd(x, y) ==
    IF FIsZero(x) THEN y
    ELSE IF FIsZero(y) THEN x
    ELSE LET big == IF x.e >= y.e THEN x ELSE y
             small == IF x.e >= y.e THEN y ELSE x
             k == big.e - small.e
         IN  IF k > 54 THEN big
             ELSE LET s == WShr(small.m, k, 0, FALSE)
                  IN  FRound(big.e, WAdd(big.m, s[1]), s[2], s[3])

\* floor(sqrt(n)) between lo and hi, lo^2 <= n < hi^2
RECURSIVE ISqrt(_, _, _)
ISqrt(n, lo, hi) ==
    IF hi - lo <= 1 THEN lo
    ELSE LET mid == (lo + hi) \div 2
         IN  IF mid * mid <= n THEN ISqrt(n, mid, hi) ELSE ISqrt(n, lo, mid)

\* floor(log2(n)) for n >= 1
RECURSIVE Log2(_)
Log2(n) == IF n <= 1 THEN 0 ELSE 1 + Log2(n \div 2)

\* s more bits of the square root, digit by digit: root = floor(sqrt(N)),
\* rem = N - root^2, and N grows by two zero bits a step
RECURSIVE SqrtBits(_, _, _)
SqrtBits(root, rem, s) ==
    IF s = 0 THEN <<root, rem>>
    ELSE LET rem4 == WShl2(rem)
             t == WInc(WShl2(root))
         IN  IF WLeq(t, rem4)
             THEN SqrtBits(WInc(WShl1(root)), WSub(rem4, t), s - 1)
             ELSE SqrtBits(WShl1(root), rem4, s - 1)

\* Math.sqrt(n) for an integer 0 <= n < 2^30: the correctly rounded root
sqrt(n) ==
    IF n = 0 THEN FZero
    ELSE LET r0 == ISqrt(n, 0, 2^15)
             e == Log2(r0)
             rr == SqrtBits(<<0, r0>>, <<0, n - r0 * r0>>, 52 - e)
             \* sqrt(N) > root + 1/2 exactly when rem > root
             up == ~WLeq(rr[2], rr[1])
         IN  FRound(e, rr[1], IF up THEN 1 ELSE 0, up)

(***************************************************************************)
(* The RGB and HSV distances.                                              *)
(***************************************************************************)
pow2(x) == x * x

min(x, y) == IF x <= y THEN x ELSE y

\* rgbDistance with the blue channel compared to the other sample's green
rgbDistanceWrongChannel(c1, c2) ==
    LET a == c1.rgb
        b == c2.rgb
    IN  sqrt(pow2(a.r - b.r) + pow2(a.g - b.g) + pow2(a.b - b.g))

rgbDistance(c1, c2) ==
    LET a == c1.rgb
        b == c2.rgb
    IN  sqrt(pow2(a.r - b.r) + pow2(a.g - b.g) + pow2(a.b - b.b))

hsvDistance(c1, c2) ==
    LET a == c1.hsv
        b == c1.hsv
        hueDiff == IF a.h > b.h
                   THEN min(a.h - b.h, b.h - a.h + 360)
                   ELSE min(b.h - a.h, a.h - b.h + 360)
    IN  sqrt(pow2(hueDiff) + pow2(a.s - b.s) + pow2(a.v - b.v))

(***************************************************************************)
(* CIEDE2000.  The LAB coordinates are integers (convert.hex.lab rounds).  *)
(* Quantities the formula derives from them are held exactly:              *)
(*   - hypot(x, y) as [rad |-> x^2 + y^2], the number sqrt(rad);           *)
(*   - a sum or a product of two such quantities, both commutative in      *)
(*     binary64, as the set of the two operands;                           *)
(*   - (1 + g) * a as [g, a]: 1 + g lies in [1, 1.5], so the product has   *)
(*     the sign of the integer a and is 0 exactly when a is;               *)
(*   - a difference x - y as [minus |-> y, plus |-> x];                    *)
(*   - an angle in whole degrees as an integer, the mean hue in half       *)
(*     degrees, the mean lightness in halves.                              *)
(* degrees(atan2(y, x)) is read from atan2deg, any function that meets     *)
(* atan2's contract on the signs of y and x.                               *)
(***************************************************************************)
\* the LAB coordinates convert.hex.lab may return
MaxL == 1
MaxAB == 1
\* the angles degrees(atan2(y, x)) may take strictly inside one quadrant
AnglesPerQuadrant == 2

LabSet == (0..MaxL) \X (-MaxAB..MaxAB) \X (-MaxAB..MaxAB)

QuadrantAngles == {(k * 90) \div (AnglesPerQuadrant + 1) : k \in 1..AnglesPerQuadrant}

abs(x) == IF x < 0 THEN 0 - x ELSE x

hypot(x, y) == [rad |-> x * x + y * y]

\* (1 + g) * a
Scaled(g, a) == [g |-> g, a |-> a]

\* the values degrees(Math.atan2(y, x)) can take, x = (1 + g) * a
Atan2Degrees(y, x) ==
    CASE y = 0 /\ x.a >= 0 -> {0}
      [] y = 0 /\ x.a < 0  -> {180}
      [] y > 0 /\ x.a > 0  -> QuadrantAngles
      [] y > 0 /\ x.a = 0  -> {90}
      [] y > 0 /\ x.a < 0  -> {90 + q : q \in QuadrantAngles}
      [] y < 0 /\ x.a > 0  -> {0 - q : q \in QuadrantAngles}
      [] y < 0 /\ x.a = 0  -> {0 - 90}
      [] y < 0 /\ x.a < 0  -> {0 - 90 - q : q \in QuadrantAngles}

\* the functions degrees(Math.atan2(y, x)) can be on the points <<y, x>> of P
RECURSIVE Atan2Tables(_)
Atan2Tables(P) ==
    IF P = {} THEN {[q \in {} |-> 0]}
    ELSE LET p == CHOOSE q \in P : TRUE
         IN  {[q \in P |-> IF q = p THEN u ELSE f[q]] :
                 u \in Atan2Degrees(p[1], p[2]), f \in Atan2Tables(P \ {p})}

\* h1p, h2p: the adjusted hue angle from the raw angle hpd
hp(b, ap, hpd) == IF b = 0 /\ ap.a = 0 THEN 0 ELSE IF hpd > 0 THEN hpd ELSE hpd + 360

\* c1 * c2 === 0
ChromaProductIsZero(c1, c2) == c1.rad * c2.rad = 0

\* dhpAngle with the two corrections by 360 exchanged
dhpAngleWrongTurn(c1, c2, h1p, h2p) ==
    IF ChromaProductIsZero(c1, c2) THEN 0
    ELSE IF abs(h2p - h1p) <= 180 THEN h2p - h1p
    ELSE IF (h2p - h1p) > 180 THEN (h2p - h1p) + 360
    ELSE (h2p - h1p) - 360

\* the angle, in degrees, whose half goes to the sine of dhp
dhpAngle(c1, c2, h1p, h2p) ==
    IF ChromaProductIsZero(c1, c2) THEN 0
    ELSE IF abs(h2p - h1p) <= 180 THEN h2p - h1p
    ELSE IF (h2p - h1p) > 180 THEN (h2p - h1p) - 360
    ELSE (h2p - h1p) + 360

\* ahp with the absolute value of the hue difference forgotten
ahpSigned(c1, c2, h1p, h2p) ==
    IF ChromaProductIsZero(c1, c2) THEN 2 * (h1p + h2p)
    ELSE IF h1p - h2p <= 180 THEN h1p + h2p
    ELSE IF h1p - h2p > 180 /\ h1p + h2p < 360 THEN h1p + h2p + 360
    ELSE h1p + h2p - 360

\* the mean hue, in half degrees
ahp(c1, c2, h1p, h2p) ==
    IF ChromaProductIsZero(c1, c2) THEN 2 * (h1p + h2p)
    ELSE IF abs(h1p - h2p) <= 180 THEN h1p + h2p
    ELSE IF abs(h1p - h2p) > 180 /\ h1p + h2p < 360 THEN h1p + h2p + 360
    ELSE h1p + h2p - 360

\* the constants of _ciede2kDistance up to the mean hue
Locals(l1, a1, b1, l2, a2, b2) ==
    LET c1 == hypot(a1, b1)
        c2 == hypot(a2, b2)
        ac1c2 == {c1, c2}
        g == [mean |-> ac1c2]
        a1p == Scaled(g, a1)
        a2p == Scaled(g, a2)
        c1p == [g |-> g, a2 |-> pow2(a1), b2 |-> pow2(b1)]
        c2p == [g |-> g, a2 |-> pow2(a2), b2 |-> pow2(b2)]
        h1pd == atan2deg[<<b1, a1p>>]
        h1p == hp(b1, a1p, h1pd)
        h2pd == atan2deg[<<b2, a2p>>]
        h2p == hp(b2, a2p, h2pd)
    IN  [c1 |-> c1, c2 |-> c2, c1p |-> c1p, c2p |-> c2p,
         h1p |-> h1p, h2p |-> h2p,
         dlp |-> l2 - l1,
         dcp |-> [minus |-> c1p, plus |-> c2p],
         dhp |-> [amp |-> {c1p, c2p}, angle |-> dhpAngle(c1, c2, h1p, h2p)],
         al |-> l1 + l2,
         acp |-> {c1p, c2p},
         ahp |-> ahp(c1, c2, h1p, h2p)]

\* -x for a difference and for dhp (the sine is odd)
NegDiff(d) == [minus |-> d.plus, plus |-> d.minus]
NegDhp(d) == [amp |-> d.amp, angle |-> 0 - d.angle]

DiffIsZero(d) == d.minus = d.plus
\* the half angle lies in [-90, 90], where the sine is 0 only at 0
DhpIsZero(d) == d.angle = 0

\* The weights t, dro, rc, sl, sc, sh and rt are functions of al, acp and ahp,
\* and the sum under the root is unchanged when dcp and dhp both change sign:
\* the result is the value these determine, and it is sqrt(0) = 0 when dlp,
\* dcp and dhp are all 0.
_ciede2kDistance(l1, a1, b1, l2, a2, b2) ==
    LET t == Locals(l1, a1, b1, l2, a2, b2) IN
    IF t.dlp = 0 /\ DiffIsZero(t.dcp) /\ DhpIsZero(t.dhp) THEN FZero
    ELSE [dlp |-> abs(t.dlp), al |-> t.al, acp |-> t.acp, ahp |-> t.ahp,
          dcpdhp |-> {<<t.dcp, t.dhp>>, <<NegDiff(t.dcp), NegDhp(t.dhp)>>}]

\* ciede2kDistance with l2 taken from the second element of the triple
ciede2kDistanceWrongL(c1, c2) ==
    LET a == hexLab[c1.hex]
        b == hexLab[c2.hex]
    IN  _ciede2kDistance(a[1], a[2], a[3], b[2], b[2], b[3])

ciede2kDistance(c1, c2) ==
    LET a == hexLab[c1.hex]
        b == hexLab[c2.hex]
    IN  _ciede2kDistance(a[1], a[2], a[3], b[1], b[2], b[3])

(***************************************************************************)
(* The dispatch.                                                           *)
(***************************************************************************)
AlgorithmTypes == [CIEDE2000 |-> "CIEDE2000", HSV |-> "HSV", RGB |-> "RGB"]

\* property names every object inherits from Object.prototype
ObjectPrototype ==
    {"constructor", "toString", "valueOf", "hasOwnProperty", "isPrototypeOf",
     "propertyIsEnumerable", "toLocaleString", "__proto__"}

\* distanceMethodMap falling back to the RGB method for a key it lacks
distanceMethodMapDefaulting(key) ==
    CASE key = AlgorithmTypes.CIEDE2000 -> "ciede2kDistance"
      [] key = AlgorithmTypes.HSV -> "hsvDistance"
      [] OTHER -> "rgbDistance"

\* distanceMethodMap[key], the result coerced to the property key it is used
\* as: an own property is a method name, an inherited one a native function
\* or object, anything else undefined
distanceMethodMap(key) ==
    CASE key = AlgorithmTypes.CIEDE2000 -> "ciede2kDistance"
      [] key = AlgorithmTypes.HSV -> "hsvDistance"
      [] key = AlgorithmTypes.RGB -> "rgbDistance"
      [] key \in ObjectPrototype -> "[native]"
      [] OTHER -> "undefined"

\* Color.distance(c1, c2, algorithmType): what Color[name](c1, c2) returns,
\* or the TypeError of calling a property Color does not have
distance(c1, c2, algorithmType) ==
    LET name == distanceMethodMap(algorithmType) IN
    CASE name = "ciede2kDistance" -> [threw |-> FALSE, value |-> ciede2kDistance(c1, c2)]
      [] name = "hsvDistance" -> [threw |-> FALSE, value |-> hsvDistance(c1, c2)]
      [] name = "rgbDistance" -> [threw |-> FALSE, value |-> rgbDistance(c1, c2)]
      [] OTHER -> [threw |-> TRUE, error |-> TypeError(name, none)]

(***************************************************************************)
(* The calls.  Each specification draws the arguments of one family of     *)
(* calls from a bounded set and makes one call.                            *)
(***************************************************************************)
NoCall ==
    /\ alg = ""
    /\ ret = none
    /\ thrown = none
    /\ pc = "start"

\* normalizeHex(hex)
CallNormalizeHex ==
    /\ pc = "start"
    /\ pc' = "normalizeHex"
    /\ ret' = normalizeHex(hex)
    /\ UNCHANGED <<hex, color1, color2, color3, hexLab, atan2deg, alg, thrown>>

\* color1 = new Color(hex)
New ==
    /\ pc = "start"
    /\ pc' = "new"
    /\ LET r == Constructor(hex) IN
       IF r.threw
       THEN thrown' = r.error /\ color1' = color1
       ELSE thrown' = thrown /\ color1' = r.object
    /\ UNCHANGED <<hex, color2, color3, hexLab, atan2deg, alg, ret>>

InitHex ==
    /\ hex \in Strings
    /\ color1 = none
    /\ color2 = none
    /\ color3 = none
    /\ hexLab = none
    /\ atan2deg = none
    /\ NoCall

NextHex == CallNormalizeHex \/ New

SpecHex == InitHex /\ [][NextHex]_vars

\* the hex digits of the generated three-digit colours
MaxDigit == 1

\* colours given in full: black, two near-black colours on a line with it,
\* two reds of hue 10 and 350, and white in upper-case digits
PaletteLong ==
    {Str(<<"#", "0", "0", "0", "0", "0", "0">>),
     Str(<<"#", "0", "0", "0", "1", "0", "1">>),
     Str(<<"#", "0", "0", "0", "4", "0", "4">>),
     Str(<<"#", "f", "f", "2", "b", "0", "0">>),
     Str(<<"#", "f", "f", "0", "0", "2", "b">>),
     Str(<<"#", "F", "F", "F", "F", "F", "F">>)}

PaletteShort ==
    {Str(<<"#", LowerDigits[i], LowerDigits[j], LowerDigits[k]>>) :
        i \in 1..(MaxDigit + 1), j \in 1..(MaxDigit + 1), k \in 1..(MaxDigit + 1)}

\* the Color objects of a set of valid strings
Colors(strings) == {Constructor(h).object : h \in strings}

\* rgbDistance(color1, color2)
CallRgbDistance ==
    /\ pc = "start"
    /\ pc' = "rgbDistance"
    /\ ret' = rgbDistance(color1, color2)
    /\ UNCHANGED <<hex, color1, color2, color3, hexLab, atan2deg, alg, thrown>>

\* hsvDistance(color1, color2)
CallHsvDistance ==
    /\ pc = "start"
    /\ pc' = "hsvDistance"
    /\ ret' = hsvDistance(color1, color2)
    /\ UNCHANGED <<hex, color1, color2, color3, hexLab, atan2deg, alg, thrown>>

InitDistance ==
    /\ hex = none
    /\ color1 \in Colors(PaletteLong \cup PaletteShort)
    /\ color2 \in Colors(PaletteLong \cup PaletteShort)
    /\ color3 \in Colors(PaletteLong)
    /\ hexLab = none
    /\ atan2deg = none
    /\ NoCall

NextDistance == CallRgbDistance \/ CallHsvDistance

SpecDistance == InitDistance /\ [][NextDistance]_vars

\* the colours the CIEDE2000 calls are made on: the first is compared with
\* itself and with the second
PaletteCiede ==
    {Str(<<"#", "c", "B", "9">>), Str(<<"#", "9", "9", "9", "9", "9", "9">>)}

\* the algorithm identifiers handed to distance: the three of AlgorithmTypes,
\* one in the wrong case, a method name, undefined and names of inherited
\* properties
AlgorithmIds ==
    {"CIEDE2000", "HSV", "RGB", "rgb", "rgbDistance", "undefined",
     "toString", "__proto__"}

\* the points atan2 is applied to on the LAB triples x and y
Points(x, y) ==
    LET g == [mean |-> {hypot(x[2], x[3]), hypot(y[2], y[3])}]
    IN  {<<x[3], Scaled(g, x[2])>>, <<y[3], Scaled(g, y[2])>>}

\* Color.distance(color1, color2, id)
CallDistance ==
    /\ pc = "start"
    /\ pc' = "distance"
    /\ \E id \in AlgorithmIds :
        /\ alg' = id
        /\ LET r == distance(color1, color2, id) IN
           IF r.threw
           THEN thrown' = r.error /\ ret' = ret
           ELSE thrown' = thrown /\ ret' = r.value
    /\ UNCHANGED <<hex, color1, color2, color3, hexLab, atan2deg>>

\* Color.ciede2kDistance(color1, color2)
CallCiede2kDistance ==
    /\ pc = "start"
    /\ pc' = "ciede2kDistance"
    /\ ret' = ciede2kDistance(color1, color2)
    /\ UNCHANGED <<hex, color1, color2, color3, hexLab, atan2deg, alg, thrown>>

InitCiede ==
    /\ hex = none
    /\ color1 \in Colors({Str(<<"#", "c", "B", "9">>)})
    /\ color2 \in Colors(PaletteCiede)
    /\ color3 = none
    /\ hexLab \in [{color1.hex, color2.hex} -> LabSet]
    /\ atan2deg \in Atan2Tables(Points(hexLab[color1.hex], hexLab[color2.hex]))
    /\ NoCall

NextCiede == CallDistance \/ CallCiede2kDistance

SpecCiede == InitCiede /\ [][NextCiede]_vars

(***************************************************************************)
(* The claims.                                                             *)
(***************************************************************************)
ClaimHexDigits ==
    {"0", "1", "2", "3", "4", "5", "6", "7", "8", "9",
     "a", "b", "c", "d", "e", "f", "A", "B", "C", "D", "E", "F"}

\* '#' followed by exactly n hex digits
IsHashDigits(cs, n) ==
    /\ Len(cs) = n + 1
    /\ cs[1] = "#"
    /\ \A i \in 2..(n + 1) : cs[i] \in ClaimHexDigits

\* C1: normalizeHex(s) is s when s is '#' and 6 hex digits, '#' and each of
\* the 3 digits doubled in order when s is '#' and 3 hex digits, and null for
\* every other string; it never throws.
C1_NormalizeHex ==
    pc = "normalizeHex" =>
        LET cs == hex.str IN
        /\ thrown = none
        /\ IsHashDigits(cs, 6) => ret = hex
        /\ IsHashDigits(cs, 3) =>
            ret = Str(<<"#", cs[2], cs[2], cs[3], cs[3], cs[4], cs[4]>>)
        /\ ~IsHashDigits(cs, 6) /\ ~IsHashDigits(cs, 3) => ret = null

\* a three-digit string with three different digits was expanded
C1_Witness ==
    /\ pc = "normalizeHex"
    /\ hex = Str(<<"#", "c", "B", "9">>)
    /\ ret = Str(<<"#", "c", "c", "B", "B", "9", "9">>)

\* C2: new Color on a string normalizeHex rejects throws a ColorParseError
\* naming that string and leaves no object; on a valid string the object has
\* hex, rgb and hsv set, rgb derived from hex and hsv from rgb.
C2_ColorParseError ==
    pc = "new" =>
        IF normalizeHex(hex) = null
        THEN /\ color1 = none
             /\ thrown # none
             /\ thrown.name = "ColorParseError"
             /\ thrown.value = hex
        ELSE /\ thrown = none
             /\ color1.original = hex
             /\ color1.hex = normalizeHex(hex)
             /\ color1.rgb = parseHex(color1.hex)
             /\ color1.hsv = rgbToHsv(color1.rgb)

\* C3: hsvDistance(a, b) is sqrt(hueDiff^2 + (a.s - b.s)^2 + (a.v - b.v)^2)
\* with hueDiff = min(|a.h - b.h|, 360 - |a.h - b.h|) taken from the hues of
\* both samples.
C3_HsvDistance ==
    pc = "hsvDistance" =>
        LET a == color1.hsv
            b == color2.hsv
            d == abs(a.h - b.h)
            hueDiff == IF d <= 360 - d THEN d ELSE 360 - d
        IN  ret = sqrt(hueDiff * hueDiff + (a.s - b.s) * (a.s - b.s)
                       + (a.v - b.v) * (a.v - b.v))

\* C4: distance(a, b, alg) is rgbDistance(a, b) for "RGB", hsvDistance(a, b)
\* for "HSV" and ciede2kDistance(a, b) for "CIEDE2000"; for every other
\* identifier it throws and returns nothing.
C4_Dispatch ==
    pc = "distance" =>
        /\ alg = "RGB" => thrown = none /\ ret = rgbDistance(color1, color2)
        /\ alg = "HSV" => thrown = none /\ ret = hsvDistance(color1, color2)
        /\ alg = "CIEDE2000" => thrown = none /\ ret = ciede2kDistance(color1, color2)
        /\ alg \notin {"RGB", "HSV", "CIEDE2000"} => thrown # none /\ ret = none

\* the name of an inherited property was handed over, on two different colours
C4_Witness ==
    /\ pc = "distance"
    /\ alg = "toString"
    /\ color1.hex # color2.hex
    /\ thrown # none

\* the constants of _ciede2kDistance on (color1, color2) and on (color2, color1)
Forward ==
    LET x == hexLab[color1.hex]
        y == hexLab[color2.hex]
    IN  Locals(x[1], x[2], x[3], y[1], y[2], y[3])

Backward ==
    LET x == hexLab[color1.hex]
        y == hexLab[color2.hex]
    IN  Locals(y[1], y[2], y[3], x[1], x[2], x[3])

\* C5: CIEDE2000 is symmetric: exchanging the two samples leaves the mean hue
\* and the means that T, S_L, S_C, S_H and R_T are computed from unchanged,
\* changes the sign of delta-C' and of delta-H', and returns the same value.
C5_Symmetric ==
    pc = "ciede2kDistance" =>
        /\ ret = ciede2kDistance(color2, color1)
        /\ Backward.ahp = Forward.ahp
        /\ Backward.al = Forward.al
        /\ Backward.acp = Forward.acp
        /\ Backward.dcp = NegDiff(Forward.dcp)
        /\ Backward.dhp = NegDhp(Forward.dhp)

\* two chromatic samples whose hues lie more than 180 degrees apart, with
\* different lightness and chroma
C5_Witness ==
    /\ pc = "ciede2kDistance"
    /\ ~ChromaProductIsZero(Forward.c1, Forward.c2)
    /\ Forward.h1p - Forward.h2p > 180
    /\ Forward.h1p + Forward.h2p < 360
    /\ Forward.dlp # 0
    /\ ~DiffIsZero(Forward.dcp)
    /\ ret # FZero

\* C6: ciede2kDistance(c, c) is exactly 0 for every colour c.
C6_Identity ==
    pc = "ciede2kDistance" /\ color1.hex = color2.hex => ret = FZero

\* the same chromatic colour twice, its hue angle on the positive a axis
C6_Witness ==
    /\ pc = "ciede2kDistance"
    /\ color1 = color2
    /\ hexLab[color1.hex][2] > 0
    /\ hexLab[color1.hex][3] = 0
    /\ ret = FZero

\* C7: rgbDistance(a, b) is non-negative, equals rgbDistance(b, a), and is 0
\* exactly when the two RGB triples are the same.
C7_RgbMetric ==
    pc = "rgbDistance" =>
        /\ FLeq(FZero, ret)
        /\ ret = rgbDistance(color2, color1)
        /\ FIsZero(ret) <=> color1.rgb = color2.rgb

\* two different strings of the same colour are at distance 0
C7_Witness ==
    /\ pc = "rgbDistance"
    /\ color1.original # color2.original
    /\ color1.rgb = color2.rgb
    /\ FIsZero(ret)

\* x <= s + k units in the last place of s
FWithinUlps(x, s, k) ==
    \/ FLeq(x, s)
    \/ /\ ~FIsZero(s)
       /\ \/ x.e = s.e /\ WLeq(x.m, WAdd(s.m, <<0, k>>))
          \/ x.e = s.e + 1 /\ WLeq(WShl1(x.m), WAdd(s.m, <<0, k>>))

\* C8 as stated: rgbDistance(a, c) <= rgbDistance(a, b) + rgbDistance(b, c).
C8_Triangle ==
    pc = "rgbDistance" =>
        FLeq(rgbDistance(color1, color3), fadd(ret, rgbDistance(color2, color3)))

\* C8, amended: rgbDistance(a, c) exceeds rgbDistance(a, b) + rgbDistance(b, c),
\* as computed, by at most one unit in the last place of the sum.
C8_TriangleRounded ==
    pc = "rgbDistance" =>
        FWithinUlps(rgbDistance(color1, color3),
                    fadd(ret, rgbDistance(color2, color3)), 1)

\* three colours on a line, the sum of the two legs rounded below the whole
C8_Witness ==
    /\ pc = "rgbDistance"
    /\ color1.rgb = [r |-> 0, g |-> 0, b |-> 0]
    /\ color2.rgb = [r |-> 0, g |-> 1, b |-> 1]
    /\ color3.rgb = [r |-> 0, g |-> 4, b |-> 4]
    /\ ~FLeq(rgbDistance(color1, color3), fadd(ret, rgbDistance(color2, color3)))

\* the raw angles of the two samples
RawAngle1 ==
    LET x == hexLab[color1.hex]
        y == hexLab[color2.hex]
        g == [mean |-> {hypot(x[2], x[3]), hypot(y[2], y[3])}]
    IN  atan2deg[<<x[3], Scaled(g, x[2])>>]

RawAngle2 ==
    LET x == hexLab[color1.hex]
        y == hexLab[color2.hex]
        g == [mean |-> {hypot(x[2], x[3]), hypot(y[2], y[3])}]
    IN  atan2deg[<<y[3], Scaled(g, y[2])>>]

\* C9: the adjusted hue angles h1', h2' lie in [0, 360): 0 when a' and b are
\* both 0, and otherwise the atan2 angle in degrees wrapped into [0, 360).
C9_HueRange ==
    pc = "ciede2kDistance" =>
        LET x == hexLab[color1.hex]
            y == hexLab[color2.hex]
        IN  /\ Forward.h1p \in 0..359
            /\ Forward.h2p \in 0..359
            /\ Forward.h1p = IF x[2] = 0 /\ x[3] = 0 THEN 0 ELSE RawAngle1 % 360
            /\ Forward.h2p = IF y[2] = 0 /\ y[3] = 0 THEN 0 ELSE RawAngle2 % 360

\* C10: the hue difference that goes to the sine of delta-H' lies in
\* [-180, 180]; it is 0 when a chroma is 0 and congruent to h2' - h1'
\* modulo 360 otherwise.
C10_HueDifference ==
    pc = "ciede2kDistance" =>
        LET t == Forward
            d == t.dhp.angle
        IN  /\ d \in (0 - 180)..180
            /\ t.c1.rad = 0 \/ t.c2.rad = 0 => d = 0
            /\ t.c1.rad # 0 /\ t.c2.rad # 0 => (d - (t.h2p - t.h1p)) % 360 = 0

\* both chromas non-zero and h2' - h1' beyond 180 degrees
C10_Witness ==
    /\ pc = "ciede2kDistance"
    /\ Forward.c1.rad # 0
    /\ Forward.c2.rad # 0
    /\ Forward.h2p - Forward.h1p > 180
    /\ Forward.dhp.angle < 0

====
